---- MODULE Spec2Model ----
(***************************************************************************)
(* Model of the RESP-style frame codec (src/lib/frame.rs), the buffered    *)
(* connection adapter (src/lib/conn.rs), the command tokenizer             *)
(* (src/lib/parse.rs) and the per-connection task (src/lib.rs).            *)
(*                                                                         *)
(* A byte is a one-character string; a buffer is a sequence of bytes.  A   *)
(* cursor position is 0-based as in std::io::Cursor, so the byte under the *)
(* cursor is buf[pos + 1].  A panic (failed bounds check, failed assert,   *)
(* todo!(), unwrap on Err) is the outcome [st |-> "Panic"].                *)
(***************************************************************************)
EXTENDS Integers, Sequences, FiniteSets, TLC

VARIABLES
  incoming,   \* bytes the peer has written that read_buf has not yet returned
  peerOpen,   \* the peer has not yet shut down its sending side
  sentAll,    \* every byte the peer has written on this connection
  buffer,     \* Connection.buffer
  pc,         \* position of the task running process()
  rf,         \* what read_frame returned
  attempt,    \* outcome of the latest parse_frame call
  lastRead,   \* byte count returned by the latest read_buf, -1 before any
  sink,       \* bytes held by the BufWriter, not yet flushed
  wire,       \* bytes flushed to the peer
  db,         \* the shared store
  cframe,     \* codec harness: the Frame handed to write_frame
  cwin,       \* codec harness: the byte window
  cwr,        \* codec harness: how cwin was produced ("none", "raw", or the
              \*   outcome of write_frame: "Ok", "Panic")
  cchk,       \* codec harness: result of Frame::check from position 0
  cprs,       \* codec harness: result of Frame::parse from position 0
  csink,      \* codec harness: bytes left in the BufWriter by write_frame
  cfail,      \* codec harness: bytes the sink accepted before the I/O error
              \*   injected into write_frame, -1 when none was injected
  swin,       \* scanner harness: the byte window
  sres,       \* scanner harness: the helper applied, its arguments and result
  tsrc,       \* tokenizer harness: the frame handed to Parse::new
  tpart,      \* tokenizer harness: Parse.part, the elements not yet consumed
  tlog,       \* tokenizer harness: results of the next/next_string calls so far
  conns,      \* several connections: the state of each connection task
  listening   \* several connections: the accept loop of run() is alive

vars == <<incoming, peerOpen, sentAll, buffer, pc, rf, attempt, lastRead,
          sink, wire, db, cframe, cwin, cwr, cchk, cprs, csink, cfail,
          swin, sres, tsrc, tpart, tlog, conns, listening>>

connVars == <<incoming, peerOpen, sentAll, buffer, pc, rf, attempt, lastRead,
              sink, wire, db>>

codecVars == <<cframe, cwin, cwr, cchk, cprs, csink, cfail>>

scanVars == <<swin, sres>>

tokVars == <<tsrc, tpart, tlog>>

multiVars == <<conns, listening>>

----------------------------------------------------------------------------
(* Bytes *)

CR == "\r"
LF == "\n"
XFF == "FF"      \* the byte 0xFF, which no UTF-8 text contains

CRLF == <<CR, LF>>

Digits == {"0", "1", "2", "3", "4", "5", "6", "7", "8", "9"}

DigitVal(c) ==
  CASE c = "0" -> 0 [] c = "1" -> 1 [] c = "2" -> 2 [] c = "3" -> 3
    [] c = "4" -> 4 [] c = "5" -> 5 [] c = "6" -> 6 [] c = "7" -> 7
    [] c = "8" -> 8 [] c = "9" -> 9

DigitChar(d) ==
  CASE d = 0 -> "0" [] d = 1 -> "1" [] d = 2 -> "2" [] d = 3 -> "3"
    [] d = 4 -> "4" [] d = 5 -> "5" [] d = 6 -> "6" [] d = 7 -> "7"
    [] d = 8 -> "8" [] d = 9 -> "9"

\* usize::MAX.  The target's value is 2^64 - 1; it is represented by the
\* largest integer the checker computes with.  Every length, count and
\* position of the model stays far below both.
UsizeMax == 2147483647

\* `!x` on a usize: bitwise complement.
NotUsize(x) == UsizeMax - x

\* String::from_utf8 succeeds.
Utf8Valid(bytes) == \A i \in 1..Len(bytes) : bytes[i] # XFF

----------------------------------------------------------------------------
(* Frame values (frame.rs: enum Frame) *)

Simple(t)  == [tag |-> "Simple", text |-> t]
Error(t)   == [tag |-> "Error", text |-> t]
Integer(n) == [tag |-> "Integer", num |-> n]
Bulk(d)    == [tag |-> "Bulk", data |-> d]
Null       == [tag |-> "Null"]
Array(v)   == [tag |-> "Array", elems |-> v]

(* FrameError and outcomes *)

Incomplete == [st |-> "Incomplete"]
Other      == [st |-> "Other"]
Panic      == [st |-> "Panic"]

----------------------------------------------------------------------------
(* Scanner helpers (frame.rs) *)

remaining(buf, pos) == Len(buf) - pos

peek_u8(buf, pos) ==
  IF ~(remaining(buf, pos) > 0) THEN Incomplete
  ELSE [st |-> "Ok", byte |-> buf[pos + 1], pos |-> pos]

get_u8(buf, pos) ==
  IF ~(remaining(buf, pos) > 0) THEN Incomplete
  ELSE [st |-> "Ok", byte |-> buf[pos + 1], pos |-> pos + 1]

\* Buf::advance on a Cursor asserts that the new position is within the slice.
advance(buf, pos, cnt) ==
  IF pos + cnt <= Len(buf) THEN [st |-> "Ok", pos |-> pos + cnt] ELSE Panic

skip(buf, pos, range) ==
  IF NotUsize(remaining(buf, pos)) < range THEN Incomplete
  ELSE advance(buf, pos, range)

\* The loop `for i in start..end` of get_line, entered at index i (0-based).
\* src.get_ref()[i + 1] is a checked index: it panics when i + 1 = end.
RECURSIVE get_line_from(_, _, _)
get_line_from(buf, start, i) ==
  IF i >= Len(buf) THEN Incomplete
  ELSE IF buf[i + 1] = CR
       THEN IF i + 1 >= Len(buf) THEN Panic
            ELSE IF buf[i + 2] = LF
                 THEN [st |-> "Ok", line |-> SubSeq(buf, start + 1, i), pos |-> i + 2]
                 ELSE get_line_from(buf, start, i + 1)
       ELSE get_line_from(buf, start, i + 1)

get_line(buf, pos) == get_line_from(buf, pos, pos)

\* atoi::<u64>: the value of the longest prefix of ASCII digits, None when
\* the slice does not start with a digit.  (Overflow of u64 gives None too;
\* no line of the model has that many digits.  The crate is a dependency
\* whose version the sources do not pin; the treatment of a leading sign
\* differs between versions and is left out.)
RECURSIVE atoi_from(_, _, _)
atoi_from(line, i, acc) ==
  IF i > Len(line) \/ line[i] \notin Digits THEN acc
  ELSE atoi_from(line, i + 1, acc * 10 + DigitVal(line[i]))

atoi(line) ==
  IF Len(line) = 0 \/ line[1] \notin Digits THEN [st |-> "None"]
  ELSE [st |-> "Some", val |-> atoi_from(line, 1, 0)]

get_decimal(buf, pos) ==
  LET l == get_line(buf, pos) IN
  IF l.st # "Ok" THEN l
  ELSE LET n == atoi(l.line) IN
       IF n.st = "None" THEN Other
       ELSE [st |-> "Ok", val |-> n.val, pos |-> l.pos]

----------------------------------------------------------------------------
(* Frame::check (frame.rs).  pos is the cursor after the leading byte. *)

check_bulk(buf, pos) ==
  LET p == peek_u8(buf, pos) IN
  IF p.st # "Ok" THEN p
  ELSE IF p.byte = "-" THEN skip(buf, pos, 4)
  ELSE LET d == get_decimal(buf, pos) IN
       IF d.st # "Ok" THEN d ELSE skip(buf, d.pos, d.val + 2)

\* Variant of check_unknown that asks for more bytes.
check_unknown_incomplete(byte) == Incomplete

\* The arm `actual => Err(format!(..).into())`.
check_unknown(byte) == Other

RECURSIVE check(_, _)
RECURSIVE check_n(_, _, _)

\* `for _ in 0..len { Frame::check(src)?; }`
check_n(buf, pos, n) ==
  IF n = 0 THEN [st |-> "Ok", pos |-> pos]
  ELSE LET c == check(buf, pos) IN
       IF c.st # "Ok" THEN c ELSE check_n(buf, c.pos, n - 1)

check(buf, pos) ==
  LET b == get_u8(buf, pos) IN
  IF b.st # "Ok" THEN b
  ELSE CASE b.byte \in {"+", "-"} ->
              LET l == get_line(buf, b.pos) IN
              IF l.st # "Ok" THEN l ELSE [st |-> "Ok", pos |-> l.pos]
         [] b.byte = ":" ->
              LET d == get_decimal(buf, b.pos) IN
              IF d.st # "Ok" THEN d ELSE [st |-> "Ok", pos |-> d.pos]
         [] b.byte = "$" -> check_bulk(buf, b.pos)
         [] b.byte = "*" ->
              LET d == get_decimal(buf, b.pos) IN
              IF d.st # "Ok" THEN d ELSE check_n(buf, d.pos, d.val)
         [] OTHER -> check_unknown(b.byte)

----------------------------------------------------------------------------
(* Frame::parse (frame.rs).  pos is the cursor after the leading byte. *)

ParsedOk(f, p) == [st |-> "Ok", frame |-> f, pos |-> p]

parse_simple(buf, pos) ==
  LET l == get_line(buf, pos) IN
  IF l.st # "Ok" THEN l
  ELSE IF ~Utf8Valid(l.line) THEN Other
  ELSE ParsedOk(Simple(l.line), l.pos)

\* The '-' arm builds Frame::Simple, as the '+' arm does.
parse_error(buf, pos) ==
  LET l == get_line(buf, pos) IN
  IF l.st # "Ok" THEN l
  ELSE IF ~Utf8Valid(l.line) THEN Other
  ELSE ParsedOk(Simple(l.line), l.pos)

parse_integer(buf, pos) ==
  LET d == get_decimal(buf, pos) IN
  IF d.st # "Ok" THEN d ELSE ParsedOk(Integer(d.val), d.pos)

\* The '$' arm when the peeked byte is '-'.
parse_null(buf, pos) ==
  LET l == get_line(buf, pos) IN
  IF l.st # "Ok" THEN l
  ELSE IF l.line = <<"-", "1">> THEN Other
  ELSE ParsedOk(Null, l.pos)

\* Variant of parse_bulk_data that takes the payload up to the next CRLF
\* instead of by its announced length.
parse_bulk_data_by_line(buf, pos) ==
  LET d == get_decimal(buf, pos) IN
  IF d.st # "Ok" THEN d
  ELSE IF remaining(buf, d.pos) < d.val + 2 THEN Incomplete
  ELSE LET l == get_line(buf, d.pos) IN
       IF l.st # "Ok" THEN l ELSE ParsedOk(Bulk(l.line), l.pos)

\* The '$' arm when the peeked byte is not '-'.
parse_bulk_data(buf, pos) ==
  LET d == get_decimal(buf, pos) IN
  IF d.st # "Ok" THEN d
  ELSE IF remaining(buf, d.pos) < d.val + 2 THEN Incomplete
  ELSE LET data == SubSeq(buf, d.pos + 1, d.pos + d.val)
           s    == skip(buf, d.pos, d.val + 2)
       IN  IF s.st # "Ok" THEN s ELSE ParsedOk(Bulk(data), s.pos)

parse_bulk(buf, pos) ==
  LET p == peek_u8(buf, pos) IN
  IF p.st # "Ok" THEN p
  ELSE IF p.byte = "-" THEN parse_null(buf, pos)
  ELSE parse_bulk_data(buf, pos)

\* What the '*' arm does once its loop has collected the children: todo!().
parse_array_finish(children, pos) == Panic

RECURSIVE parse(_, _)
RECURSIVE parse_n(_, _, _, _)

\* `for _ in 0..size { let frame = Frame::parse(src)?; vec.push(frame); }`
parse_n(buf, pos, n, vec) ==
  IF n = 0 THEN parse_array_finish(vec, pos)
  ELSE LET f == parse(buf, pos) IN
       IF f.st # "Ok" THEN f
       ELSE parse_n(buf, f.pos, n - 1, Append(vec, f.frame))

parse(buf, pos) ==
  LET b == get_u8(buf, pos) IN
  IF b.st # "Ok" THEN b
  ELSE CASE b.byte = "+" -> parse_simple(buf, b.pos)
         [] b.byte = "-" -> parse_error(buf, b.pos)
         [] b.byte = ":" -> parse_integer(buf, b.pos)
         [] b.byte = "$" -> parse_bulk(buf, b.pos)
         [] b.byte = "*" ->
              LET d == get_decimal(buf, b.pos) IN
              IF d.st # "Ok" THEN d ELSE parse_n(buf, d.pos, d.val, <<>>)
         [] OTHER -> Other

----------------------------------------------------------------------------
(* Connection, read side (conn.rs) *)

\* Variant of parse_frame that discards the bytes it found incomplete.
parse_frame_consuming(buf) ==
  LET c == check(buf, 0) IN
  CASE c.st = "Ok" ->
         LET f == parse(buf, 0) IN
         CASE f.st = "Ok" ->
                [st |-> "Some", frame |-> f.frame,
                 buffer |-> SubSeq(buf, c.pos + 1, Len(buf))]
           [] f.st = "Panic" -> [st |-> "Panic", buffer |-> buf]
           [] OTHER -> [st |-> "Err", buffer |-> buf]
    [] c.st = "Incomplete" -> [st |-> "None", buffer |-> <<>>]
    [] c.st = "Panic" -> [st |-> "Panic", buffer |-> buf]
    [] OTHER -> [st |-> "Err", buffer |-> buf]

\* parse_frame: probe with check, then parse from position 0 and drop the
\* probed length from the front of the buffer.
parse_frame(buf) ==
  LET c == check(buf, 0) IN
  CASE c.st = "Ok" ->
         LET f == parse(buf, 0) IN
         CASE f.st = "Ok" ->
                [st |-> "Some", frame |-> f.frame,
                 buffer |-> SubSeq(buf, c.pos + 1, Len(buf))]
           [] f.st = "Panic" -> [st |-> "Panic", buffer |-> buf]
           [] OTHER -> [st |-> "Err", buffer |-> buf]
    [] c.st = "Incomplete" -> [st |-> "None", buffer |-> buf]
    [] c.st = "Panic" -> [st |-> "Panic", buffer |-> buf]
    [] OTHER -> [st |-> "Err", buffer |-> buf]

\* Variant of on_zero_read that reports a clean end whatever the buffer holds.
on_zero_read_always_clean(buf) == "None"

\* read_frame, the branch taken when read_buf returned 0.
on_zero_read(buf) == IF buf = <<>> THEN "None" ELSE "Err"

----------------------------------------------------------------------------
(* Connection, write side (conn.rs) *)

\* `write!(.., "{}", val)` for a u64: the decimal digits, most significant first.
RECURSIVE fmt_u64(_)
fmt_u64(n) ==
  IF n < 10 THEN <<DigitChar(n)>>
  ELSE fmt_u64(n \div 10) \o <<DigitChar(n % 10)>>

write_decimal(val) == fmt_u64(val) \o CRLF

\* Variant of write_value that leaves out the terminator after a Bulk payload.
write_value_no_terminator(frame) ==
  CASE frame.tag = "Simple"  -> [st |-> "Ok", bytes |-> <<"+">> \o frame.text \o CRLF]
    [] frame.tag = "Error"   -> [st |-> "Ok", bytes |-> <<"-">> \o frame.text \o CRLF]
    [] frame.tag = "Integer" -> [st |-> "Ok", bytes |-> <<":">> \o write_decimal(frame.num)]
    [] frame.tag = "Bulk"    ->
         [st |-> "Ok", bytes |-> <<"$">> \o write_decimal(Len(frame.data)) \o frame.data]
    [] frame.tag = "Null"    -> [st |-> "Ok", bytes |-> <<"$", "-", "1">> \o CRLF]
    [] frame.tag = "Array"   -> [st |-> "Panic", bytes |-> <<>>]

\* Bytes handed to the BufWriter, in order; unreachable!() for an Array.
write_value(frame) ==
  CASE frame.tag = "Simple"  -> [st |-> "Ok", bytes |-> <<"+">> \o frame.text \o CRLF]
    [] frame.tag = "Error"   -> [st |-> "Ok", bytes |-> <<"-">> \o frame.text \o CRLF]
    [] frame.tag = "Integer" -> [st |-> "Ok", bytes |-> <<":">> \o write_decimal(frame.num)]
    [] frame.tag = "Bulk"    ->
         [st |-> "Ok",
          bytes |-> <<"$">> \o write_decimal(Len(frame.data)) \o frame.data \o CRLF]
    [] frame.tag = "Null"    -> [st |-> "Ok", bytes |-> <<"$", "-", "1">> \o CRLF]
    [] frame.tag = "Array"   -> [st |-> "Panic", bytes |-> <<>>]

\* `for cur in target_vec { self.write_value(&cur).await?; }`
RECURSIVE write_values(_, _)
write_values(vec, acc) ==
  IF vec = <<>> THEN [st |-> "Ok", bytes |-> acc]
  ELSE LET w == write_value(Head(vec)) IN
       IF w.st # "Ok" THEN [st |-> w.st, bytes |-> acc]
       ELSE write_values(Tail(vec), acc \o w.bytes)

\* write_frame up to its flush: the bytes written and whether flush is reached.
write_frame(frame) ==
  IF frame.tag = "Array"
  THEN write_values(frame.elems, <<"*">> \o write_decimal(Len(frame.elems)))
  ELSE write_value(frame)

\* Variant of write_frame_io that returns Ok without flushing.
write_frame_io_no_flush(frame, fail, j) ==
  LET w == write_frame(frame) IN
  IF fail >= 0 /\ fail <= Len(w.bytes)
  THEN [st |-> "Err", wire |-> SubSeq(w.bytes, 1, j),
        sink |-> SubSeq(w.bytes, j + 1, fail)]
  ELSE IF w.st # "Ok" THEN [st |-> w.st, wire |-> <<>>, sink |-> w.bytes]
  ELSE [st |-> "Ok", wire |-> <<>>, sink |-> w.bytes]

\* write_frame on a stream that may fail.  fail is the number of bytes the
\* BufWriter accepted before a write step (or, with every byte accepted, the
\* flush) returned an I/O error, -1 when no step fails; each step's error
\* leaves through `?`, the flush's through the final expression.  Of the
\* accepted bytes the first j had already been passed on to the stream.
write_frame_io(frame, fail, j) ==
  LET w == write_frame(frame) IN
  IF fail >= 0 /\ fail <= Len(w.bytes)
  THEN [st |-> "Err", wire |-> SubSeq(w.bytes, 1, j),
        sink |-> SubSeq(w.bytes, j + 1, fail)]
  ELSE IF w.st # "Ok" THEN [st |-> w.st, wire |-> <<>>, sink |-> w.bytes]
  ELSE [st |-> "Ok", wire |-> w.bytes, sink |-> <<>>]

----------------------------------------------------------------------------
(* Tokenizer (parse.rs) *)

Parse_new(frame) ==
  IF frame.tag = "Array" THEN [st |-> "Ok", part |-> frame.elems]
  ELSE [st |-> "Other"]

\* Variant of Parse_next that hands out the element without moving on.
Parse_next_peek(part) ==
  IF part = <<>> THEN [st |-> "EndOfStream"]
  ELSE [st |-> "Ok", frame |-> Head(part), part |-> part]

\* self.part.next().ok_or(EndOfStream); `part` is what the iterator has left.
Parse_next(part) ==
  IF part = <<>> THEN [st |-> "EndOfStream"]
  ELSE [st |-> "Ok", frame |-> Head(part), part |-> Tail(part)]

\* The element is taken from the iterator before it is matched, so a failed
\* conversion has consumed it too.
Parse_next_string(part) ==
  LET n == Parse_next(part) IN
  IF n.st # "Ok" THEN n
  ELSE CASE n.frame.tag = "Simple" ->
              [st |-> "Ok", text |-> n.frame.text, part |-> n.part]
         [] n.frame.tag = "Bulk" ->
              IF Utf8Valid(n.frame.data)
              THEN [st |-> "Ok", text |-> n.frame.data, part |-> n.part]
              ELSE [st |-> "Other", part |-> n.part]
         [] OTHER -> [st |-> "Other", part |-> n.part]

----------------------------------------------------------------------------
(* Command decoding and dispatch (lib.rs) *)

GetName == {<<"G", "E", "T">>, <<"g", "e", "t">>}

\* Command::from_frame: tokenize the Array; a first token spelling GET and
\* exactly one further string token give Get(key); any other first token
\* gives a command of another kind.
Command_from_frame(frame) ==
  LET p == Parse_new(frame) IN
  IF p.st # "Ok" THEN [st |-> "Err"]
  ELSE LET name == Parse_next_string(p.part) IN
       IF name.st # "Ok" THEN [st |-> "Err"]
       ELSE IF name.text \notin GetName THEN [st |-> "Ok", kind |-> "Unknown"]
       ELSE LET key == Parse_next_string(name.part) IN
            IF key.st # "Ok" THEN [st |-> "Err"]
            ELSE IF key.part # <<>> THEN [st |-> "Err"]
            ELSE [st |-> "Ok", kind |-> "Get", key |-> key.text]

\* The `match cmd` of process: the response frame, or unimplemented!().
respond(cmd, store) ==
  IF cmd.kind = "Get"
  THEN [st |-> "Ok",
        resp |-> IF cmd.key \in DOMAIN store THEN Bulk(store[cmd.key]) ELSE Null]
  ELSE [st |-> "Panic"]

\* Variant of process_frame that goes back to read_frame for the next command.
process_frame_looping(frame, store) ==
  LET c == Command_from_frame(frame) IN
  IF c.st # "Ok" THEN [pc |-> "parse", held |-> <<>>, flushed |-> <<>>]
  ELSE LET r == respond(c, store) IN
       IF r.st # "Ok" THEN [pc |-> "panicked", held |-> <<>>, flushed |-> <<>>]
       ELSE LET w == write_frame(r.resp) IN
            IF w.st = "Ok"
            THEN [pc |-> "parse", held |-> <<>>, flushed |-> w.bytes]
            ELSE [pc |-> "panicked", held |-> w.bytes, flushed |-> <<>>]

\* process() from the point where read_frame has returned Some(frame):
\* the task's final position and the bytes it wrote and flushed.
process_frame(frame, store) ==
  LET c == Command_from_frame(frame) IN
  IF c.st # "Ok" THEN [pc |-> "ended", held |-> <<>>, flushed |-> <<>>]
  ELSE LET r == respond(c, store) IN
       IF r.st # "Ok" THEN [pc |-> "panicked", held |-> <<>>, flushed |-> <<>>]
       ELSE LET w == write_frame(r.resp) IN
            IF w.st = "Ok"
            THEN [pc |-> "ended", held |-> <<>>, flushed |-> w.bytes]
            ELSE [pc |-> "panicked", held |-> w.bytes, flushed |-> <<>>]

----------------------------------------------------------------------------
(* Bounded inputs *)

MaxText == 2        \* longest text of a Simple or Error frame
MaxData == 2        \* longest payload of a Bulk frame
MaxInt == 12        \* largest Integer value
MaxElems == 2       \* most elements of an Array
MaxTokens == 4      \* most tokens of a raw byte window
MaxCoalesced == 2   \* most frames the peer writes back to back

BSeq(S, n) == UNION {[1..k -> S] : k \in 0..n}

RECURSIVE Flatten(_)
Flatten(ss) == IF ss = <<>> THEN <<>> ELSE Head(ss) \o Flatten(Tail(ss))

TextBytes == {"a", "b"}
DataBytes == {"a", CR, LF, XFF}

Texts == BSeq(TextBytes, MaxText)
Datas == BSeq(DataBytes, MaxData)

Leaves ==
  {Simple(t) : t \in Texts} \cup {Error(t) : t \in Texts}
    \cup {Integer(n) : n \in 0..MaxInt} \cup {Bulk(d) : d \in Datas} \cup {Null}

ElemFrames == {Simple(<<"a">>), Error(<<"a">>), Integer(7), Bulk(<<"a">>), Null}

Arrays == {Array(v) : v \in BSeq(ElemFrames, MaxElems)}

KeyPing == <<"p", "i", "n", "g">>
KeyMissing == <<"m", "i", "s", "s", "i", "n", "g">>
ValPong == <<"p", "o", "n", "g">>
KeyFoo == <<"f", "o", "o">>

GetCmd(k) == Array(<<Bulk(<<"G", "E", "T">>), Bulk(k)>>)

Commands ==
  {GetCmd(KeyPing), GetCmd(KeyMissing), GetCmd(KeyFoo),
   Array(<<Bulk(<<"P", "I", "N", "G">>)>>)}

Responses == {Bulk(ValPong), Bulk(KeyFoo), Null}

Nested == {Array(<<Array(<<>>)>>), Array(<<Null, Array(<<Null>>)>>)}

\* Frames handed to write_frame by the codec harness.
HarnessFrames == Leaves \cup Arrays \cup Commands \cup Responses \cup Nested

Tokens ==
  {<<"+">>, <<"-">>, <<":">>, <<"$">>, <<"$", "-">>, <<"*">>, CRLF, <<CR>>,
   <<"0">>, <<"1">>, <<"2">>, <<"a">>, <<XFF>>}

\* Raw byte windows handed to check and parse by the codec harness.
Windows == {Flatten(ts) : ts \in BSeq(Tokens, MaxTokens)}

CoalFrames ==
  {Simple(<<"a">>), Error(<<"a">>), Integer(1), Bulk(<<"a">>), Null, Array(<<>>)}

Malformed ==
  {<<"a">>, <<"$", "-", "2", CR, LF>>, <<"$", "-", "1", "2", CR, LF>>,
   <<":", "a", CR, LF>>, <<":", "1", "a", CR, LF>>, <<"+", XFF, CR, LF>>,
   <<"$", "1", CR, LF, "a", "b", "b">>,
   <<"a", "+", "a", CR, LF>>, <<"1", CR, LF>>, <<CR, LF>>, <<XFF, "$", "1">>,
   <<LF, "*", "0", CR>>}

RECURSIVE Encodings(_)
Encodings(fs) ==
  IF fs = <<>> THEN <<>> ELSE write_frame(Head(fs)).bytes \o Encodings(Tail(fs))

\* Byte streams a peer writes: one frame, several frames back to back, or
\* bytes that are no frame.  The peer may stop after any prefix.
PeerScripts ==
  {write_frame(f).bytes : f \in Leaves \cup Arrays \cup Commands \cup Responses}
    \cup {Encodings(fs) : fs \in BSeq(CoalFrames, MaxCoalesced) \ BSeq(CoalFrames, 1)}
    \cup Malformed

----------------------------------------------------------------------------
(* State machine *)

NoFrame == [tag |-> "none"]
NotRun  == [st |-> "NotRun"]

MaxConns == 2       \* connections the accept loop takes

Conns == 1..MaxConns

\* A connection the listener has not accepted yet.
NewConn ==
  [pc |-> "unaccepted", incoming |-> <<>>, sent |-> <<>>, open |-> TRUE,
   buffer |-> <<>>, rf |-> [st |-> "pending"], wire |-> <<>>, late |-> FALSE]

Init ==
  /\ incoming = <<>>
  /\ peerOpen = TRUE
  /\ sentAll = <<>>
  /\ buffer = <<>>
  /\ pc = "parse"
  /\ rf = [st |-> "pending"]
  /\ attempt = "none"
  /\ lastRead = -1
  /\ sink = <<>>
  /\ wire = <<>>
  /\ db = (KeyPing :> ValPong)
  /\ cframe = NoFrame
  /\ cwin = <<>>
  /\ cwr = "none"
  /\ cchk = NotRun
  /\ cprs = NotRun
  /\ csink = <<>>
  /\ cfail = -1
  /\ swin = <<>>
  /\ sres = NotRun
  /\ tsrc = NoFrame
  /\ tpart = <<>>
  /\ tlog = <<>>
  /\ conns = [c \in Conns |-> NewConn]
  /\ listening = TRUE

\* The peer writes the first k bytes of a script.
PeerSend ==
  /\ peerOpen
  /\ sentAll = <<>>
  /\ \E s \in PeerScripts : \E k \in 1..Len(s) :
       /\ incoming' = SubSeq(s, 1, k)
       /\ sentAll' = SubSeq(s, 1, k)
  /\ UNCHANGED <<peerOpen, buffer, pc, rf, attempt, lastRead, sink, wire, db>>
  /\ UNCHANGED <<codecVars, scanVars, tokVars, multiVars>>

\* The peer shuts down its sending side.
PeerClose ==
  /\ peerOpen
  /\ peerOpen' = FALSE
  /\ UNCHANGED <<incoming, sentAll, buffer, pc, rf, attempt, lastRead, sink, wire, db>>
  /\ UNCHANGED <<codecVars, scanVars, tokVars, multiVars>>

\* read_frame, top of the loop: self.parse_frame()?.  An Err returned by
\* read_frame is unwrapped by process() and panics the task.
ParseStep ==
  /\ pc = "parse"
  /\ LET r == parse_frame(buffer) IN
       /\ attempt' = r.st
       /\ buffer' = r.buffer
       /\ rf' = CASE r.st = "Some" -> [st |-> "Some", frame |-> r.frame]
                  [] r.st = "Err"  -> [st |-> "Err"]
                  [] OTHER         -> rf
       /\ pc' = CASE r.st = "Some" -> "dispatch"
                  [] r.st = "None" -> "read"
                  [] OTHER         -> "panicked"
  /\ UNCHANGED <<incoming, peerOpen, sentAll, lastRead, sink, wire, db>>
  /\ UNCHANGED <<codecVars, scanVars, tokVars, multiVars>>

\* read_frame, the await on read_buf: some bytes of the stream arrive, or the
\* stream is at its end and the read returns 0.
ReadStep ==
  /\ pc = "read"
  /\ \/ /\ incoming # <<>>
        /\ \E n \in 1..Len(incoming) :
             /\ buffer' = buffer \o SubSeq(incoming, 1, n)
             /\ incoming' = SubSeq(incoming, n + 1, Len(incoming))
             /\ lastRead' = n
        /\ pc' = "parse"
        /\ UNCHANGED rf
     \/ /\ incoming = <<>>
        /\ ~peerOpen
        /\ lastRead' = 0
        /\ rf' = [st |-> on_zero_read(buffer)]
        /\ pc' = IF on_zero_read(buffer) = "None" THEN "ended" ELSE "panicked"
        /\ UNCHANGED <<buffer, incoming>>
  /\ UNCHANGED <<peerOpen, sentAll, attempt, sink, wire, db>>
  /\ UNCHANGED <<codecVars, scanVars, tokVars, multiVars>>

\* process(), after read_frame returned Some(frame): decode the command,
\* look the key up, write and flush the response.
Dispatch ==
  /\ pc = "dispatch"
  /\ LET p == process_frame(rf.frame, db) IN
       /\ pc' = p.pc
       /\ sink' = sink \o p.held
       /\ wire' = wire \o p.flushed
  /\ UNCHANGED <<incoming, peerOpen, sentAll, buffer, rf, attempt, lastRead, db>>
  /\ UNCHANGED <<codecVars, scanVars, tokVars, multiVars>>

Next ==
  \/ PeerSend
  \/ PeerClose
  \/ ParseStep
  \/ ReadStep
  \/ Dispatch

Spec == Init /\ [][Next]_vars

(* Codec harness: write_frame, Frame::check and Frame::parse applied to    *)
(* bounded inputs.                                                         *)

\* write_frame(f) on a connection that has written nothing yet, on a stream
\* that may fail; the window is what reached the peer.
HarnessWrite ==
  /\ cwr = "none"
  /\ \E f \in HarnessFrames :
       \E fail \in -1..Len(write_frame(f).bytes) :
         \E j \in 0..(IF fail < 0 THEN 0 ELSE fail) :
           LET w == write_frame_io(f, fail, j) IN
             /\ cwr' = w.st
             /\ cwin' = w.wire
             /\ csink' = w.sink
             /\ cfail' = fail
             /\ cframe' = f
  /\ UNCHANGED <<cchk, cprs>>
  /\ UNCHANGED <<connVars, scanVars, tokVars, multiVars>>

\* An arbitrary byte window.
HarnessWindow ==
  /\ cwr = "none"
  /\ cwr' = "raw"
  /\ \E w \in Windows : cwin' = w
  /\ UNCHANGED <<cframe, cchk, cprs, csink, cfail>>
  /\ UNCHANGED <<connVars, scanVars, tokVars, multiVars>>

HarnessCheck ==
  /\ cwr \in {"Ok", "raw"}
  /\ cchk = NotRun
  /\ cchk' = check(cwin, 0)
  /\ UNCHANGED <<cframe, cwin, cwr, cprs, csink, cfail>>
  /\ UNCHANGED <<connVars, scanVars, tokVars, multiVars>>

HarnessParse ==
  /\ cwr \in {"Ok", "raw"}
  /\ cchk # NotRun
  /\ cprs = NotRun
  /\ cprs' = parse(cwin, 0)
  /\ UNCHANGED <<cframe, cwin, cwr, cchk, csink, cfail>>
  /\ UNCHANGED <<connVars, scanVars, tokVars, multiVars>>

NextCodec ==
  \/ HarnessWrite
  \/ HarnessWindow
  \/ HarnessCheck
  \/ HarnessParse

SpecCodec == Init /\ [][NextCodec]_vars

(* Several connections: the accept loop of run() and one process task per  *)
(* accepted connection, all holding a clone of the Arc around one store.   *)

\* What the peers of the concurrent connections send.
MultiScripts ==
  {<<>>, <<"a">>, <<"+", "a">>, <<"+", "a", CR, LF>>, <<"*", "0", CR, LF>>}

\* Variant of task_end in which a panicking task takes the accept loop down.
task_end_propagating(accepting, taskPc) == accepting /\ taskPc # "panicked"

\* tokio::spawn(async move { process(..) }): the task runs detached and run()
\* drops its JoinHandle, so neither the task's return nor its panic reaches
\* the accept loop.
task_end(accepting, taskPc) == accepting

\* One pass of read_frame's loop head on connection k.
conn_parse(k) ==
  LET r == parse_frame(k.buffer) IN
  [k EXCEPT !.buffer = r.buffer,
            !.rf = CASE r.st = "Some" -> [st |-> "Some", frame |-> r.frame]
                     [] r.st = "Err"  -> [st |-> "Err"]
                     [] OTHER         -> k.rf,
            !.pc = CASE r.st = "Some" -> "dispatch"
                     [] r.st = "None" -> "read"
                     [] OTHER         -> "panicked"]

\* read_buf on connection k returning n > 0 bytes.
conn_read(k, n) ==
  [k EXCEPT !.buffer = k.buffer \o SubSeq(k.incoming, 1, n),
            !.incoming = SubSeq(k.incoming, n + 1, Len(k.incoming)),
            !.pc = "parse"]

\* read_buf on connection k returning 0.
conn_eof(k) ==
  [k EXCEPT !.rf = [st |-> on_zero_read(k.buffer)],
            !.pc = IF on_zero_read(k.buffer) = "None" THEN "ended" ELSE "panicked"]

\* process() on connection k after read_frame returned Some(frame).
conn_dispatch(k, store) ==
  LET p == process_frame(k.rf.frame, store) IN
  [k EXCEPT !.pc = p.pc, !.wire = k.wire \o p.flushed]

\* listener.accept() returns the next connection; its task is spawned.
MAccept ==
  /\ listening
  /\ \E c \in Conns :
       /\ conns[c].pc = "unaccepted"
       /\ \A d \in Conns : d < c => conns[d].pc # "unaccepted"
       /\ \E s \in MultiScripts :
            conns' = [conns EXCEPT ![c] =
                        [NewConn EXCEPT !.pc = "parse", !.incoming = s, !.sent = s,
                           !.late = \E d \in Conns : conns[d].pc = "panicked"]]
  /\ UNCHANGED listening
  /\ UNCHANGED <<connVars, codecVars, scanVars, tokVars>>

\* The peer of a connection shuts down its sending side.
MPeerClose ==
  /\ \E c \in Conns :
       /\ conns[c].pc # "unaccepted"
       /\ conns[c].open
       /\ conns' = [conns EXCEPT ![c].open = FALSE]
  /\ UNCHANGED listening
  /\ UNCHANGED <<connVars, codecVars, scanVars, tokVars>>

MParse ==
  /\ \E c \in Conns :
       /\ conns[c].pc = "parse"
       /\ conns' = [conns EXCEPT ![c] = conn_parse(conns[c])]
       /\ listening' = task_end(listening, conn_parse(conns[c]).pc)
  /\ UNCHANGED <<connVars, codecVars, scanVars, tokVars>>

MRead ==
  /\ \E c \in Conns :
       /\ conns[c].pc = "read"
       /\ \/ /\ conns[c].incoming # <<>>
             /\ \E n \in 1..Len(conns[c].incoming) :
                  conns' = [conns EXCEPT ![c] = conn_read(conns[c], n)]
             /\ UNCHANGED listening
          \/ /\ conns[c].incoming = <<>>
             /\ ~conns[c].open
             /\ conns' = [conns EXCEPT ![c] = conn_eof(conns[c])]
             /\ listening' = task_end(listening, conn_eof(conns[c]).pc)
  /\ UNCHANGED <<connVars, codecVars, scanVars, tokVars>>

MDispatch ==
  /\ \E c \in Conns :
       /\ conns[c].pc = "dispatch"
       /\ conns' = [conns EXCEPT ![c] = conn_dispatch(conns[c], db)]
       /\ listening' = task_end(listening, conn_dispatch(conns[c], db).pc)
  /\ UNCHANGED <<connVars, codecVars, scanVars, tokVars>>

NextMulti ==
  \/ MAccept
  \/ MPeerClose
  \/ MParse
  \/ MRead
  \/ MDispatch

SpecMulti == Init /\ [][NextMulti]_vars

(* Tokenizer harness: Parse::new on a bounded frame, then any sequence of  *)
(* next and next_string calls on the Parse it returned.                    *)

MaxExtraCalls == 2  \* calls made after the last element was handed out

TokElems ==
  {Simple(<<"a">>), Simple(<<"b">>), Bulk(<<"a">>), Bulk(<<"b", "a">>),
   Bulk(<<XFF>>), Error(<<"a">>), Integer(7), Null, Array(<<>>)}

TokFrames ==
  {Array(v) : v \in BSeq(TokElems, MaxElems)}
    \cup {Simple(<<"a">>), Bulk(<<"a">>), Null}

TokNew ==
  /\ tsrc = NoFrame
  /\ \E f \in TokFrames :
       /\ tsrc' = f
       /\ tpart' = IF Parse_new(f).st = "Ok" THEN Parse_new(f).part ELSE <<>>
  /\ tlog' = <<>>
  /\ UNCHANGED <<connVars, codecVars, scanVars, multiVars>>

TokNext ==
  /\ tsrc # NoFrame
  /\ Parse_new(tsrc).st = "Ok"
  /\ Len(tlog) < Len(tsrc.elems) + MaxExtraCalls
  /\ LET r == Parse_next(tpart) IN
       /\ tpart' = IF r.st = "Ok" THEN r.part ELSE tpart
       /\ tlog' = Append(tlog,
                    [call |-> "next",
                     res |-> IF r.st = "Ok" THEN [st |-> "Ok", frame |-> r.frame]
                             ELSE [st |-> r.st]])
  /\ UNCHANGED tsrc
  /\ UNCHANGED <<connVars, codecVars, scanVars, multiVars>>

TokNextString ==
  /\ tsrc # NoFrame
  /\ Parse_new(tsrc).st = "Ok"
  /\ Len(tlog) < Len(tsrc.elems) + MaxExtraCalls
  /\ LET r == Parse_next_string(tpart) IN
       /\ tpart' = IF r.st = "EndOfStream" THEN tpart ELSE r.part
       /\ tlog' = Append(tlog,
                    [call |-> "next_string",
                     res |-> IF r.st = "Ok" THEN [st |-> "Ok", text |-> r.text]
                             ELSE [st |-> r.st]])
  /\ UNCHANGED tsrc
  /\ UNCHANGED <<connVars, codecVars, scanVars, multiVars>>

NextParse ==
  \/ TokNew
  \/ TokNext
  \/ TokNextString

SpecParse == Init /\ [][NextParse]_vars

(* Scanner harness: get_line, skip, get_decimal and Frame::check applied   *)
(* to a cursor at any position of a bounded byte window.                   *)

MaxScanLen == 4
MaxSkip == 3

ScanBytes == {CR, LF, "1", "a"}

ScanWindows == BSeq(ScanBytes, MaxScanLen)

\* The encodings of Bulk and Null frames, cut before their last byte or
\* earlier.
TruncatedBulks ==
  UNION {{SubSeq(write_frame(f).bytes, 1, k) :
            k \in 0..(Len(write_frame(f).bytes) - 1)} :
         f \in {Null} \cup {Bulk(d) : d \in Datas}}

\* A cursor over a window, at any position from its start to its end.
ScanStart ==
  /\ sres = NotRun
  /\ \E w \in ScanWindows \cup TruncatedBulks : \E p \in 0..Len(w) :
       /\ swin' = w
       /\ sres' = [op |-> "start", pos |-> p]
  /\ UNCHANGED <<connVars, codecVars, tokVars, multiVars>>

ScanGetLine ==
  /\ sres # NotRun
  /\ sres.op = "start"
  /\ sres' = [op |-> "get_line", pos |-> sres.pos, res |-> get_line(swin, sres.pos)]
  /\ UNCHANGED swin
  /\ UNCHANGED <<connVars, codecVars, tokVars, multiVars>>

ScanSkip ==
  /\ sres # NotRun
  /\ sres.op = "start"
  /\ \E n \in 0..MaxSkip :
       sres' = [op |-> "skip", pos |-> sres.pos, n |-> n, res |-> skip(swin, sres.pos, n)]
  /\ UNCHANGED swin
  /\ UNCHANGED <<connVars, codecVars, tokVars, multiVars>>

ScanGetDecimal ==
  /\ sres # NotRun
  /\ sres.op = "start"
  /\ sres' = [op |-> "get_decimal", pos |-> sres.pos, res |-> get_decimal(swin, sres.pos)]
  /\ UNCHANGED swin
  /\ UNCHANGED <<connVars, codecVars, tokVars, multiVars>>

\* Frame::check on a fresh cursor over the window.
ScanCheck ==
  /\ sres # NotRun
  /\ sres.op = "start"
  /\ sres.pos = 0
  /\ sres' = [op |-> "check", pos |-> 0, res |-> check(swin, 0)]
  /\ UNCHANGED swin
  /\ UNCHANGED <<connVars, codecVars, tokVars, multiVars>>

NextScan ==
  \/ ScanStart
  \/ ScanGetLine
  \/ ScanSkip
  \/ ScanGetDecimal
  \/ ScanCheck

SpecScan == Init /\ [][NextScan]_vars

----------------------------------------------------------------------------
(* The wire format, stated independently of the encoder                    *)

RECURSIVE DecValue(_)
DecValue(ds) ==
  IF ds = <<>> THEN 0
  ELSE 10 * DecValue(SubSeq(ds, 1, Len(ds) - 1)) + DigitVal(ds[Len(ds)])

AllDigits(ds) == Len(ds) >= 1 /\ \A i \in 1..Len(ds) : ds[i] \in Digits

\* ds is the unsigned decimal numeral of n, without leading zeros.
IsDecimal(ds, n) ==
  /\ AllDigits(ds)
  /\ (Len(ds) > 1 => ds[1] # "0")
  /\ DecValue(ds) = n

IsLeafWire(f, b) ==
  CASE f.tag = "Simple" -> b = <<"+">> \o f.text \o CRLF
    [] f.tag = "Error" -> b = <<"-">> \o f.text \o CRLF
    [] f.tag = "Integer" ->
         /\ Len(b) >= 4
         /\ b[1] = ":"
         /\ IsDecimal(SubSeq(b, 2, Len(b) - 2), f.num)
         /\ SubSeq(b, Len(b) - 1, Len(b)) = CRLF
    [] f.tag = "Bulk" ->
         LET k == Len(b) - Len(f.data) - 5 IN
         /\ k >= 1
         /\ b[1] = "$"
         /\ IsDecimal(SubSeq(b, 2, k + 1), Len(f.data))
         /\ SubSeq(b, k + 2, Len(b)) = CRLF \o f.data \o CRLF
    [] f.tag = "Null" -> b = <<"$", "-", "1", CR, LF>>
    [] OTHER -> FALSE

RECURSIVE IsLeafWires(_, _)
IsLeafWires(fs, b) ==
  IF fs = <<>> THEN b = <<>>
  ELSE \E k \in 1..Len(b) :
         /\ IsLeafWire(Head(fs), SubSeq(b, 1, k))
         /\ IsLeafWires(Tail(fs), SubSeq(b, k + 1, Len(b)))

\* b is the encoding of frame f (f holds no nested Array).
IsWire(f, b) ==
  IF f.tag = "Array"
  THEN \E k \in 1..(Len(b) - 3) :
         /\ b[1] = "*"
         /\ IsDecimal(SubSeq(b, 2, k + 1), Len(f.elems))
         /\ SubSeq(b, k + 2, k + 3) = CRLF
         /\ IsLeafWires(f.elems, SubSeq(b, k + 4, Len(b)))
  ELSE IsLeafWire(f, b)

\* b is the encodings of the frames fs, back to back.
RECURSIVE IsWires(_, _)
IsWires(fs, b) ==
  IF fs = <<>> THEN b = <<>>
  ELSE \E k \in 1..Len(b) :
         /\ IsWire(Head(fs), SubSeq(b, 1, k))
         /\ IsWires(Tail(fs), SubSeq(b, k + 1, Len(b)))

NoNested(f) ==
  f.tag = "Array" => \A i \in 1..Len(f.elems) : f.elems[i].tag # "Array"

IsStrictPrefix(a, b) == Len(a) < Len(b) /\ a = SubSeq(b, 1, Len(a))

ValidFrames == Leaves \cup Arrays \cup Commands \cup Responses

\* The scripts of the peer that are the encoding of exactly one frame.
ValidWires == {s \in PeerScripts : \E f \in ValidFrames : IsWire(f, s)}

FrameOfWire(s) == CHOOSE f \in ValidFrames : IsWire(f, s)

----------------------------------------------------------------------------
(* Claims *)

\* C1: round trip.  For every frame without a nested Array, the bytes that
\* write_frame emits are accepted by Frame::check and Frame::parse decodes
\* them to a frame equal to the one written.
C1_RoundTrip ==
  (cwr = "Ok" /\ NoNested(cframe) /\ cprs # NotRun)
    => (cchk.st = "Ok" /\ cprs.st = "Ok" /\ cprs.frame = cframe)

\* C2: probe/parse agreement.  On every byte window Frame::check from
\* position 0 succeeds exactly when Frame::parse from position 0 succeeds,
\* and then both leave the cursor at the same position.
C2_ProbeParseAgree ==
  cprs # NotRun
    => /\ (cchk.st = "Ok") <=> (cprs.st = "Ok")
       /\ (cchk.st = "Ok" /\ cprs.st = "Ok") => cchk.pos = cprs.pos

\* C3: partial delivery.  Every decode attempt made while the buffer holds a
\* strict prefix of a valid frame's encoding reports Incomplete (parse_frame
\* returns Ok(None)); and once read_frame has returned with the whole
\* encoding delivered, it has returned the frame that encoding stands for.
C3_PartialDelivery ==
  /\ (/\ attempt # "none"
      /\ pc \in {"read", "panicked"}
      /\ lastRead # 0
      /\ \E s \in ValidWires : IsStrictPrefix(buffer, s))
       => attempt = "None"
  /\ (/\ sentAll \in ValidWires
      /\ incoming = <<>>
      /\ pc \in {"dispatch", "ended", "panicked"})
       => (rf.st = "Some" /\ rf.frame = FrameOfWire(sentAll))

\* C4: peer close.  When read_buf returns 0, read_frame returns Ok(None) if
\* the receive buffer is empty and an error if it holds bytes; in the error
\* case the buffer still holds every byte the peer sent.
C4_PeerClose ==
  lastRead = 0
    => /\ buffer = <<>> => (rf.st = "None" /\ pc = "ended")
       /\ buffer # <<>> => (rf.st = "Err" /\ buffer = sentAll)
       /\ rf.st = "None" => sentAll = <<>>

C4_Witness ==
  lastRead = 0 /\ buffer # <<>> /\ rf.st = "Err" /\ pc = "panicked"

\* C5: coalescing.  When one read has put the encodings of several frames
\* back to back into the buffer, read_frame returns the first of them and
\* leaves in the buffer exactly the encodings of the following ones.
C5_Coalescing ==
  \A fs \in BSeq(CoalFrames, MaxCoalesced) :
    (/\ Len(fs) >= 2
     /\ lastRead = Len(sentAll)
     /\ pc # "parse"
     /\ IsWires(fs, sentAll))
      => (/\ rf.st = "Some"
          /\ rf.frame = Head(fs)
          /\ IsWires(Tail(fs), buffer))

\* C6: encoding.  For every frame without a nested Array, on a stream that
\* does not fail, write_frame
\* completes and the bytes that reach the peer are the frame's wire form:
\* prefix byte, text or canonical decimal, CRLF, and for an Array the count
\* followed by each element's encoding in order.  Bulk("pong") gives
\* $4\r\npong\r\n and Null gives $-1\r\n.
C6_Encoding ==
  cwr # "none" /\ cwr # "raw" /\ cfail < 0 /\ NoNested(cframe)
    => /\ cwr = "Ok"
       /\ IsWire(cframe, cwin)
       /\ cframe = Bulk(ValPong)
            => cwin = <<"$", "4", CR, LF, "p", "o", "n", "g", CR, LF>>
       /\ cframe = Null => cwin = <<"$", "-", "1", CR, LF>>

C6_Witness ==
  /\ cwr = "Ok"
  /\ cframe = Bulk(ValPong)
  /\ cwin = <<"$", "4", CR, LF, "p", "o", "n", "g", CR, LF>>

\* C7: array decode.  Frame::parse on the encoding of an Array of Simple,
\* Integer and Bulk frames returns that Array, children in wire order;
\* *2\r\n$3\r\nGET\r\n$3\r\nfoo\r\n gives Array([Bulk("GET"), Bulk("foo")]).
C7_ArrayDecode ==
  (/\ cwr = "Ok"
   /\ cprs # NotRun
   /\ cframe.tag = "Array"
   /\ \A i \in 1..Len(cframe.elems) :
        cframe.elems[i].tag \in {"Simple", "Integer", "Bulk"})
    => cprs = ParsedOk(cframe, Len(cwin))

\* The digit counts k for which the window reads $<k digits>\r\n<payload>\r\n
\* with the digits giving the payload's length (empty for any other window).
BulkWindowDigits(w) ==
  {k \in 1..(Len(w) - 5) :
     /\ w[1] = "$"
     /\ AllDigits(SubSeq(w, 2, k + 1))
     /\ SubSeq(w, k + 2, k + 3) = CRLF
     /\ Len(w) = k + 5 + DecValue(SubSeq(w, 2, k + 1))
     /\ SubSeq(w, Len(w) - 1, Len(w)) = CRLF}

\* C8: bulk decode.  On every window $<len>\r\n<payload>\r\n with a payload
\* of len bytes, whatever bytes the payload holds, Frame::parse returns Bulk
\* of exactly the payload and leaves the cursor at the end of the window.
C8_BulkDecode ==
  \A k \in BulkWindowDigits(cwin) :
    cprs # NotRun
      => cprs = ParsedOk(Bulk(SubSeq(cwin, k + 4, Len(cwin) - 2)), Len(cwin))

C8_Witness ==
  /\ cwin = <<"$", "2", CR, LF, CR, LF, CR, LF>>
  /\ cprs = ParsedOk(Bulk(CRLF), 8)

\* C9: Null and negative lengths.  Frame::parse decodes $-1\r\n to Null and
\* fails with FrameError::Other on every other line $-...\r\n.
C9_NullOrIllegal ==
  (/\ cprs # NotRun
   /\ Len(cwin) >= 4
   /\ cwin[1] = "$"
   /\ cwin[2] = "-"
   /\ SubSeq(cwin, Len(cwin) - 1, Len(cwin)) = CRLF
   /\ \A i \in 1..(Len(cwin) - 2) : cwin[i] # CR)
    => IF cwin = <<"$", "-", "1", CR, LF>>
       THEN cprs = ParsedOk(Null, 5)
       ELSE cprs.st = "Other"

C11_FlushBeforeReturn ==
  cwr \in {"Ok", "Err", "Panic"}
    => /\ cwr = "Ok" => (csink = <<>> /\ IsWire(cframe, cwin))
       /\ cfail >= 0 => cwr = "Err"
       /\ cwr = "Err" => cfail >= 0

C11_Witness ==
  /\ cwr = "Ok"
  /\ cframe = Array(<<Bulk(<<"a">>), Null>>)
  /\ csink = <<>>
  /\ cwin = <<"*", "2", CR, LF, "$", "1", CR, LF, "a", CR, LF, "$", "-", "1", CR, LF>>

LeadBytes == {"+", "-", ":", "$", "*"}

\* C12: unrecognized leading byte.  Once a decode attempt has been made on a
\* buffer whose first byte is none of + - : $ * (the buffer is not what a
\* decoded frame left behind), Frame::check has returned FrameError::Other
\* whatever follows, read_frame has returned an error, and no byte beyond
\* those of the first read has been read.
C12_UnknownLeadingByte ==
  (buffer # <<>> /\ buffer[1] \notin LeadBytes /\ pc # "parse" /\ rf.st # "Some")
    => /\ check(buffer, 0) = Other
       /\ attempt = "Err"
       /\ rf.st = "Err"
       /\ pc = "panicked"
       /\ lastRead = Len(buffer)

C12_Witness ==
  /\ buffer = <<"a", "+">>
  /\ incoming = <<"a", CR, LF>>
  /\ attempt = "Err"
  /\ rf.st = "Err"

\* w is one CRLF-terminated line behind a one-byte prefix.
IsOneLine(w) ==
  /\ Len(w) >= 3
  /\ SubSeq(w, Len(w) - 1, Len(w)) = CRLF
  /\ \A i \in 2..(Len(w) - 2) : ~(w[i] = CR /\ w[i + 1] = LF)

LineBody(w) == SubSeq(w, 2, Len(w) - 2)

\* C13: prefix-to-variant mapping on decode.  Frame::parse on +<text>\r\n
\* returns Simple(text), on -<text>\r\n returns Error(text), and on :<n>\r\n
\* returns Integer(n), the cursor left at the end of the line.
C13_PrefixVariant ==
  (cwr \in {"Ok", "raw"} /\ cprs # NotRun /\ IsOneLine(cwin))
    => /\ (cwin[1] = "+" /\ Utf8Valid(LineBody(cwin)))
            => cprs = ParsedOk(Simple(LineBody(cwin)), Len(cwin))
       /\ (cwin[1] = "-" /\ Utf8Valid(LineBody(cwin)))
            => cprs = ParsedOk(Error(LineBody(cwin)), Len(cwin))
       /\ (cwin[1] = ":" /\ AllDigits(LineBody(cwin)))
            => cprs = ParsedOk(Integer(DecValue(LineBody(cwin))), Len(cwin))

\* The 0-based indices i >= p at which a CR LF pair starts in w.
CRLFAt(w, p) == {i \in p..(Len(w) - 2) : w[i + 1] = CR /\ w[i + 2] = LF}

FirstCRLF(w, p) == CHOOSE i \in CRLFAt(w, p) : \A j \in CRLFAt(w, p) : i <= j

\* C14: get_line reports Incomplete whenever no CRLF pair lies between the
\* cursor and the end of the buffer, a buffer ending in a lone CR included;
\* otherwise it returns the bytes before the first CRLF and leaves the
\* cursor just past it.
C14_GetLine ==
  (sres # NotRun /\ sres.op = "get_line")
    => IF CRLFAt(swin, sres.pos) = {}
       THEN sres.res = Incomplete
       ELSE LET i == FirstCRLF(swin, sres.pos) IN
            sres.res = [st |-> "Ok", line |-> SubSeq(swin, sres.pos + 1, i),
                        pos |-> i + 2]

\* C15: skip(src, N) returns Incomplete when fewer than N bytes remain and
\* advances the cursor by exactly N otherwise; Frame::check on a Bulk or
\* Null frame that has not fully arrived returns Incomplete.
C15_Skip ==
  /\ (sres # NotRun /\ sres.op = "skip")
       => IF Len(swin) - sres.pos < sres.n
          THEN sres.res = Incomplete
          ELSE sres.res = [st |-> "Ok", pos |-> sres.pos + sres.n]
  /\ (sres # NotRun /\ sres.op = "check" /\ swin \in TruncatedBulks)
       => sres.res = Incomplete

\* C16: get_decimal on a CRLF-terminated line fails with FrameError::Other
\* unless the line is one or more ASCII digits and nothing else, and returns
\* the value of a line of digits.
C16_GetDecimal ==
  (sres # NotRun /\ sres.op = "get_decimal" /\ CRLFAt(swin, sres.pos) # {})
    => LET i == FirstCRLF(swin, sres.pos)
           line == SubSeq(swin, sres.pos + 1, i)
       IN  IF AllDigits(line)
           THEN sres.res = [st |-> "Ok", val |-> DecValue(line), pos |-> i + 2]
           ELSE sres.res = Other

\* What the claim lets a call return when it consumes element e.
TokenResult(call, e) ==
  IF call = "next" THEN [st |-> "Ok", frame |-> e]
  ELSE CASE e.tag = "Simple" -> [st |-> "Ok", text |-> e.text]
         [] e.tag = "Bulk" /\ Utf8Valid(e.data) -> [st |-> "Ok", text |-> e.data]
         [] OTHER -> [st |-> "Other"]

\* C17: the tokenizer is a forward-only cursor.  For a Parse built from
\* Array([e1..en]) the k-th call to next or next_string, k <= n, consumes ek
\* (next_string returning its text when ek is a Simple or a valid-text Bulk
\* and failing otherwise), every later call fails with EndOfStream, and what
\* the Parse still holds is exactly the elements after the last one consumed.
C17_ForwardCursor ==
  (tsrc # NoFrame /\ tsrc.tag = "Array")
    => LET n == Len(tsrc.elems) IN
       /\ \A k \in 1..Len(tlog) :
            IF k <= n
            THEN tlog[k].res = TokenResult(tlog[k].call, tsrc.elems[k])
            ELSE tlog[k].res = [st |-> "EndOfStream"]
       /\ tpart = SubSeq(tsrc.elems, (IF Len(tlog) < n THEN Len(tlog) ELSE n) + 1, n)

C17_Witness ==
  /\ tsrc = Array(<<Bulk(<<"b", "a">>), Integer(7)>>)
  /\ Len(tlog) = 3
  /\ tlog[1] = [call |-> "next_string", res |-> [st |-> "Ok", text |-> <<"b", "a">>]]
  /\ tlog[2] = [call |-> "next_string", res |-> [st |-> "Other"]]
  /\ tlog[3] = [call |-> "next", res |-> [st |-> "EndOfStream"]]
  /\ tpart = <<>>

\* The bytes read_buf has moved from the stream into the receive buffer.
Delivered == SubSeq(sentAll, 1, Len(sentAll) - Len(incoming))

\* C18: a failed decode attempt leaves the receive buffer untouched.  Until a
\* frame is decoded the buffer holds every byte read so far, in order, and
\* the result of the latest attempt is the result of probing all those bytes
\* from position zero in one go.
C18_FailedAttemptKeepsBuffer ==
  attempt # "Some"
    => /\ buffer = Delivered
       /\ (attempt # "none" /\ pc # "parse") => attempt = parse_frame(Delivered).st

C18_Witness ==
  /\ pc = "read"
  /\ attempt = "None"
  /\ lastRead > 0
  /\ lastRead < Len(buffer)
  /\ buffer = <<"+", "a">>

\* The frames process can write: the stored value of a key, or Null.
ResponseFrames == {Null} \cup {Bulk(db[k]) : k \in DOMAIN db}

\* C20: one command per connection.  Once read_frame has returned a frame
\* the task never decodes again: the frame is the first one of the bytes
\* read and everything behind it stays in the buffer.  The task writes
\* nothing or exactly one response frame, and a frame that does not decode
\* to a command ends the task with nothing written.
C20_OneCommand ==
  /\ rf.st = "Some"
       => /\ pc \in {"dispatch", "ended", "panicked"}
          /\ parse_frame(Delivered).st = "Some"
          /\ parse_frame(Delivered).frame = rf.frame
          /\ parse_frame(Delivered).buffer = buffer
  /\ (rf.st = "Some" /\ pc # "dispatch" /\ Command_from_frame(rf.frame).st = "Err")
       => (pc = "ended" /\ wire = <<>> /\ sink = <<>>)
  /\ wire = <<>> \/ \E f \in ResponseFrames : IsWire(f, wire)

C20_Witness ==
  /\ pc = "ended"
  /\ rf = [st |-> "Some", frame |-> Simple(<<"a">>)]
  /\ buffer = <<":", "1", CR, LF>>
  /\ incoming = <<>>
  /\ wire = <<>>

\* The bytes read_buf has moved into the buffer of connection k.
DeliveredTo(k) == SubSeq(k.sent, 1, Len(k.sent) - Len(k.incoming))

\* What a connection's task does with its frame when it runs alone against
\* the store as run() filled it.
AloneOutcome(k) == process_frame(k.rf.frame, KeyPing :> ValPong)

\* C19: connection isolation.  With several connection tasks running
\* against the shared store, whatever ends a task, the accept loop is still
\* accepting, the store is as run() filled it, and what each connection has
\* decoded and received depends on its own bytes only: the frame is the
\* first frame of the bytes it read, and once its task is over the response
\* on its wire is the one it gets when it runs alone.
C19_Isolation ==
  /\ listening
  /\ db = (KeyPing :> ValPong)
  /\ \A c \in Conns :
       LET k == conns[c] IN
       /\ k.rf.st # "Some" => (k.buffer = DeliveredTo(k) /\ k.wire = <<>>)
       /\ k.rf.st = "Some"
            => /\ parse_frame(DeliveredTo(k)).st = "Some"
               /\ parse_frame(DeliveredTo(k)).frame = k.rf.frame
               /\ parse_frame(DeliveredTo(k)).buffer = k.buffer
       /\ (k.rf.st = "Some" /\ k.pc # "dispatch")
            => (k.pc = AloneOutcome(k).pc /\ k.wire = AloneOutcome(k).flushed)

C19_Witness ==
  /\ conns[1].pc = "panicked"
  /\ conns[1].rf.st = "Err"
  /\ conns[2].late
  /\ conns[2].pc = "ended"
  /\ conns[2].rf = [st |-> "Some", frame |-> Simple(<<"a">>)]
  /\ listening

====
